---- MODULE Spec2Model ----
(***************************************************************************)
(* Model of src/01_CutSilent.py: remove_silence and its batch driver.      *)
(*                                                                         *)
(* Times are counted in sample periods (1/44100 s): the code's             *)
(* i * window_size / 44100 seconds is i * window_size periods, and         *)
(* video.duration is a whole number of periods.                            *)
(* Samples are the raw signed 16-bit values of the wave file; a normalized *)
(* amplitude audio_data[k] / peak is kept as the pair (audio_data[k],      *)
(* peak), and the comparisons on it are done on exact fractions.           *)
(***************************************************************************)
EXTENDS Integers, Sequences, FiniteSets, TLC

VARIABLES
    video_files,    \* number of paths glob returned (line 166)
    cur,            \* 1-based position of the driver's loop in video_files
    pc,             \* position in the driver / in remove_silence
    window_size,    \* int(44100 * min_silence_duration) (line 100)
    use_gpu,        \* the capability flag (lines 47, 61)
    video_open,     \* the VideoFileClip handle is open
    final_open,     \* the concatenated clip is open
    duration,       \* video.duration, in sample periods
    temp_audio,     \* temp_audio.wav exists
    nchannels,      \* wf.getnchannels() (line 75)
    audio_data,     \* nchannels times the array of lines 74-76 (the samples; for stereo, left + right)
    peak,           \* np.max(np.abs(audio_data)), the divisor of line 78
    is_silent,      \* the per-sample booleans (host array)
    i,              \* the window loop's index (line 107)
    start_time,     \* line 104
    keep_segments,  \* line 103
    output,         \* what is at output_path: "none", "partial", "complete"
    encodes,        \* each write_videofile call of this file: its codec, and whether it succeeded
    error,          \* the stage whose exception the handler printed, or "none"
    report,         \* per file, what remove_silence printed last
    leaked,         \* decoder handles left open by the files already returned
    d_is_silent,    \* the device array of the kernel launch
    writes,         \* per index, how many kernel threads wrote it
    stray,          \* writes of kernel threads outside the array
    todo,           \* in-range kernel threads that have not run yet
    idle            \* number of out-of-range kernel threads not run yet

vars == <<video_files, cur, pc, window_size, use_gpu, video_open, final_open,
          duration, temp_audio, nchannels, audio_data, peak, is_silent, i, start_time,
          keep_segments, output, encodes, error, report, leaked,
          d_is_silent, writes, stray, todo, idle>>

(***************************************************************************)
(* Bounds of the model.                                                    *)
(***************************************************************************)
MaxFiles == 2
MaxSamples == 3
MaxWindow == 2
MaxDuration == 3
MaxScanLen == 10
MaxKernelLen == 2
MaxNormLen == 2

(***************************************************************************)
(* Program constants.                                                      *)
(***************************************************************************)
Int16Min == -32768
ThresholdDen == 100
SilentNum == 4
SilentDen == 5
threadsperblock == 256

\* Sample values the inputs are drawn from: a loud sample, a zero sample and
\* a sample that is exactly threshold * peak when the peak is 100.
SampleVals == {-100, 0, 1}

RECURSIVE SeqsUpTo(_, _)
SeqsUpTo(S, n) ==
    IF n = 0 THEN {<<>>}
    ELSE LET shorter == SeqsUpTo(S, n - 1)
         IN  shorter \cup {Append(s, x) : s \in {t \in shorter : Len(t) = n - 1}, x \in S}

Abs(x) == IF x < 0 THEN -x ELSE x

\* np.abs on an int16 array wraps: the absolute value of -32768 is -32768.
Abs16(a) == IF a = Int16Min THEN Int16Min ELSE Abs(a)

RECURSIVE MaxOf(_)
MaxOf(s) ==
    IF Len(s) = 1 THEN s[1]
    ELSE LET m == MaxOf(Tail(s)) IN IF s[1] > m THEN s[1] ELSE m

\* np.max(np.abs(audio_data)) of line 78, for a non-empty array.
Peak(x) == MaxOf([k \in 1..Len(x) |-> Abs16(x[k])])

(***************************************************************************)
(* Per-sample classification (lines 58 and 94).                            *)
(*                                                                         *)
(* audio_data is float32 after line 78: the sample a becomes the float32   *)
(* nearest to a / m.  With m = 0 the quotient is NaN (0/0) or an infinity, *)
(* numpy only warns, and every comparison with NaN or with an infinity     *)
(* below is False.                                                         *)
(*                                                                         *)
(* threshold is the Python float 0.01 (line 36; the driver passes none).   *)
(* On the CPU numpy compares a float32 array with a Python scalar in       *)
(* float32: |a/m| rounded to float32 against 0.01 rounded to float32.      *)
(* In the CUDA kernel numba types the scalar argument as float64 and       *)
(* promotes the float32 element: |a/m| rounded to float32 against the      *)
(* float64 0.01, which lies strictly between float32(0.01) and the next    *)
(* float32 above it.  Two fractions of 16-bit integers that differ are     *)
(* more than 3e-7 apart, far more than one float32 step near 0.01, so      *)
(* float32(|a/m|) < float32(0.01) exactly when |a|/|m| < 1/100, and        *)
(* float32(|a/m|) < float64(0.01) exactly when |a|/|m| <= 1/100.           *)
(***************************************************************************)
SilentCPU(a, m) == m /= 0 /\ ThresholdDen * Abs(a) < Abs(m)

SilentGPU(a, m) == m /= 0 /\ ThresholdDen * Abs(a) <= Abs(m)

\* is_silent = np.abs(audio_data) < threshold
CpuClassify(x, m) == [k \in 1..Len(x) |-> SilentCPU(x[k], m)]

\* The host copy of d_is_silent after the kernel and cuda.synchronize().
GpuClassify(x, m) == [k \in 1..Len(x) |-> SilentGPU(x[k], m)]

(***************************************************************************)
(* Windows and keep-intervals (lines 100-120).                             *)
(***************************************************************************)
NumWindows(sil, ws) == Len(sil) \div ws

\* Number of True samples of window w (0-based), is_silent[w*ws:(w+1)*ws].
SilentCount(sil, ws, w) == Cardinality({k \in (w * ws + 1)..((w + 1) * ws) : sil[k]})

\* np.mean(window) < 0.8: the loop's "continue" branch.
WindowVoiced(sil, ws, w) == SilentDen * SilentCount(sil, ws, w) < SilentNum * ws

\* Line 112 without its guard: an interval is closed at every silent window.
SegmentOpenAlways(st, w, ws) == TRUE

\* The guard of line 112.
SegmentOpen(st, w, ws) == st < w * ws

\* Line 117 off by one window: the next candidate starts where the silent
\* window starts.
NextStartAtWindow(w, ws) == w * ws

\* The start_time a silent window leaves (line 117).
NextStart(w, ws) == (w + 1) * ws

\* One iteration of the loop of lines 107-117 on the pair
\* [start_time, keep_segments].
ScanWindow(s, sil, ws, w) ==
    IF WindowVoiced(sil, ws, w) THEN s
    ELSE [start_time |-> NextStart(w, ws),
          keep_segments |-> IF SegmentOpen(s.start_time, w, ws)
                            THEN Append(s.keep_segments, <<s.start_time, w * ws>>)
                            ELSE s.keep_segments]

\* Lines 119-120.
TailSegments(s, dur) ==
    IF s.start_time < dur THEN Append(s.keep_segments, <<s.start_time, dur>>)
    ELSE s.keep_segments

RECURSIVE ScanUpTo(_, _, _)
ScanUpTo(sil, ws, n) ==
    IF n = 0 THEN [start_time |-> 0, keep_segments |-> <<>>]
    ELSE ScanWindow(ScanUpTo(sil, ws, n - 1), sil, ws, n - 1)

\* keep_segments after line 120, as a function of the classification.
KeepSegments(sil, ws, dur) == TailSegments(ScanUpTo(sil, ws, NumWindows(sil, ws)), dur)

(***************************************************************************)
(* The batch driver and remove_silence, one action per step.               *)
(***************************************************************************)
kernelVars == <<d_is_silent, writes, stray, todo, idle>>

\* The variables one call of remove_silence owns.
callVars == <<use_gpu, video_open, final_open, duration, audio_data, peak,
              is_silent, i, start_time, keep_segments, output, encodes, error>>

batchVars == <<video_files, cur, report, leaked>>

\* codec='h264_nvenc' if use_gpu else 'libx264' (line 139).
FirstCodec(gpu) == IF gpu THEN "h264_nvenc" ELSE "libx264"

\* The codec of the retry (line 148).
RetryCodec == "libx264"

\* A retry that is itself retried: every failure leads to another attempt.
AlwaysRetry(attempt) == "encode2"

\* Where a failed write_videofile leads: the first one is caught by the inner
\* except (line 144), the second one propagates to the handler (line 158).
AfterEncodeFailure(attempt) == IF attempt = 1 THEN "encode2" ELSE "except"

\* A handler without lines 160-161: the file stays if it was there.
HandlerKeepsTemp(exists) == exists

\* What the handler leaves of temp_audio.wav (lines 160-161).
HandlerTemp(exists) == FALSE

\* A handler that re-raises: the exception leaves remove_silence and ends the
\* driver's loop.
HandlerReraises == "exit"

\* Where control goes after the handler: remove_silence returns normally.
HandlerNext == "return"

\* Line 125 without its test: the output is created whatever the list holds.
CreatesOutputAlways(segs) == TRUE

\* What "if keep_segments:" (line 125) selects.
CreatesOutput(segs) == segs /= <<>>

\* Raising: control moves to the handler with the failing stage recorded.
Raise(stage) == pc' = "except" /\ error' = stage

\* for video_path in video_files: remove_silence(video_path)  (lines 168-170)
NextFile ==
    /\ pc = "driver"
    /\ cur <= video_files
    /\ pc' = "probe"
    /\ window_size' \in 1..MaxWindow
    /\ use_gpu' = FALSE
    /\ video_open' = FALSE
    /\ final_open' = FALSE
    /\ duration' = 0
    /\ nchannels' = 1
    /\ audio_data' = <<>>
    /\ peak' = 0
    /\ is_silent' = <<>>
    /\ i' = 0
    /\ start_time' = 0
    /\ keep_segments' = <<>>
    /\ output' = "none"
    /\ encodes' = <<>>
    /\ error' = "none"
    /\ UNCHANGED <<batchVars, temp_audio, kernelVars>>

\* The loop of line 168 is exhausted.
BatchEnd ==
    /\ pc = "driver"
    /\ cur > video_files
    /\ pc' = "exit"
    /\ UNCHANGED <<batchVars, window_size, callVars, temp_audio, kernelVars, nchannels>>

\* Lines 47-61: the capability probe, then the import of numba.cuda, whose
\* ImportError turns the flag off.
ProbeDevice ==
    /\ pc = "probe"
    /\ \E probe \in BOOLEAN, imported \in BOOLEAN : use_gpu' = (probe /\ imported)
    /\ pc' = "load"
    /\ UNCHANGED <<batchVars, window_size, video_open, final_open, duration,
                   audio_data, peak, is_silent, i, start_time, keep_segments,
                   output, encodes, error, temp_audio, kernelVars, nchannels>>

\* Line 64: VideoFileClip(video_path) opens the container, whose duration is
\* positive, or raises.
LoadVideo ==
    /\ pc = "load"
    /\ \/ /\ video_open' = TRUE
          /\ duration' \in 1..MaxDuration
          /\ pc' = "extract"
          /\ error' = error
       \/ /\ Raise("load")
          /\ UNCHANGED <<video_open, duration>>
    /\ UNCHANGED <<batchVars, window_size, use_gpu, final_open, audio_data, peak,
                   is_silent, i, start_time, keep_segments, output, encodes,
                   temp_audio, kernelVars, nchannels>>

\* Line 68: write_audiofile writes temp_audio.wav; a container without an
\* audio track raises before anything is written, a failing write may have
\* created the file.
ExtractAudio ==
    /\ pc = "extract"
    /\ \/ /\ temp_audio' = TRUE
          /\ pc' = "analyze"
          /\ error' = error
       \/ /\ Raise("extract")
          /\ temp_audio' \in {temp_audio, TRUE}
    /\ UNCHANGED <<batchVars, window_size, use_gpu, video_open, final_open,
                   duration, audio_data, peak, is_silent, i, start_time,
                   keep_segments, output, encodes, kernelVars, nchannels>>

\* The wave files of one channel with up to n frames of the given values.
MonoWaves(vals, n) == {[nchannels |-> 1, frames |-> x] : x \in SeqsUpTo(vals, n)}

\* The wave files of two channels: a frame is the pair <<left, right>>.
StereoWaves(vals, n) == {[nchannels |-> 2, frames |-> x] : x \in SeqsUpTo(vals \X vals, n)}

\* Lines 74-76, times nchannels: the int16 samples of a mono file; for a
\* stereo file reshape(-1, 2).mean(axis=1) is the float64 (left + right) / 2,
\* kept here as left + right.  The factor cancels in the quotient of line 78.
Downmix(w) ==
    IF w.nchannels = 2
    THEN [k \in 1..Len(w.frames) |-> w.frames[k][1] + w.frames[k][2]]
    ELSE w.frames

\* np.max(np.abs(audio_data)) of line 78 (times nchannels), for a non-empty
\* array: np.abs works on the int16 array of a mono file, where it wraps, and
\* on the float64 means of a stereo file, where it is exact.
Divisor(x, nch) ==
    IF nch = 2 THEN MaxOf([k \in 1..Len(x) |-> Abs(x[k])]) ELSE Peak(x)

\* Lines 73-78 on one of the given wave files: read the frames, downmix and
\* divide by the peak.  np.max of an empty array raises ValueError; a peak of
\* 0 only yields NaN and a warning.
NormalizeFrom(waves) ==
    /\ pc = "analyze"
    /\ \E w \in waves :
          /\ nchannels' = w.nchannels
          /\ audio_data' = Downmix(w)
          /\ \/ /\ w.frames /= <<>>
                /\ peak' = Divisor(Downmix(w), w.nchannels)
                /\ pc' = "classify"
                /\ error' = error
             \/ /\ w.frames = <<>>
                /\ peak' = peak
                /\ Raise("analyze")
    /\ UNCHANGED <<batchVars, window_size, use_gpu, video_open, final_open,
                   duration, is_silent, i, start_time, keep_segments, output,
                   encodes, temp_audio, kernelVars>>

\* Lines 73-78 in the pipeline, on a mono file.
Normalize == NormalizeFrom(MonoWaves(SampleVals, MaxSamples))

\* Lines 80-104: the per-sample comparison on the chosen path (the kernel launch
\* with its synchronize, or the numpy expression), then the loop's initial
\* values.  A CUDA call may raise.
Classify ==
    /\ pc = "classify"
    /\ \/ /\ is_silent' = IF use_gpu THEN GpuClassify(audio_data, peak)
                                     ELSE CpuClassify(audio_data, peak)
          /\ pc' = "scan"
          /\ error' = error
       \/ /\ use_gpu
          /\ is_silent' = is_silent
          /\ Raise("analyze")
    /\ i' = 0
    /\ start_time' = 0
    /\ keep_segments' = <<>>
    /\ UNCHANGED <<batchVars, window_size, use_gpu, video_open, final_open,
                   duration, audio_data, peak, output, encodes, temp_audio,
                   kernelVars, nchannels>>

scanRest == <<batchVars, nchannels, window_size, use_gpu, video_open, final_open, duration,
              audio_data, peak, is_silent, output, encodes, error, temp_audio,
              kernelVars>>

\* One iteration of the loop of lines 107-117.
ScanStep ==
    /\ pc = "scan"
    /\ i < NumWindows(is_silent, window_size)
    /\ LET s == ScanWindow([start_time |-> start_time, keep_segments |-> keep_segments],
                           is_silent, window_size, i)
       IN  /\ start_time' = s.start_time
           /\ keep_segments' = s.keep_segments
    /\ i' = i + 1
    /\ pc' = "scan"
    /\ UNCHANGED scanRest

\* Lines 119-120, after the last window.
TailStep ==
    /\ pc = "scan"
    /\ i = NumWindows(is_silent, window_size)
    /\ keep_segments' = TailSegments([start_time |-> start_time,
                                      keep_segments |-> keep_segments], duration)
    /\ pc' = "tail"
    /\ UNCHANGED <<i, start_time>>
    /\ UNCHANGED scanRest

\* Line 122: os.remove(temp_audio).
RemoveTemp ==
    /\ pc = "tail"
    /\ temp_audio' = FALSE
    /\ pc' = "create"
    /\ UNCHANGED <<batchVars, window_size, callVars, kernelVars, nchannels>>

\* Lines 125-130: with segments, cut and concatenate (a subclip or the
\* concatenation may raise); without, fall through to video.close().
CreateOutput ==
    /\ pc = "create"
    /\ \/ /\ CreatesOutput(keep_segments)
          /\ final_open' = TRUE
          /\ pc' = "encode1"
          /\ error' = error
       \/ /\ CreatesOutput(keep_segments)
          /\ final_open' = final_open
          /\ Raise("cut")
       \/ /\ ~CreatesOutput(keep_segments)
          /\ final_open' = final_open
          /\ pc' = "close_video"
          /\ error' = error
    /\ UNCHANGED <<batchVars, window_size, use_gpu, video_open, duration,
                   audio_data, peak, is_silent, i, start_time, keep_segments,
                   output, encodes, temp_audio, kernelVars, nchannels>>

\* A write_videofile call with the given codec: a success leaves the whole
\* file, a failure leaves what was there or a truncated file.
Encode(attempt, codec) ==
    /\ \/ /\ encodes' = Append(encodes, [codec |-> codec, ok |-> TRUE])
          /\ output' = "complete"
          /\ pc' = "close_final"
          /\ error' = error
       \/ /\ encodes' = Append(encodes, [codec |-> codec, ok |-> FALSE])
          /\ output' \in {output, "partial"}
          /\ pc' = AfterEncodeFailure(attempt)
          /\ error' = IF AfterEncodeFailure(attempt) = "except" THEN "encode" ELSE error
    /\ UNCHANGED <<batchVars, window_size, use_gpu, video_open, final_open,
                   duration, audio_data, peak, is_silent, i, start_time,
                   keep_segments, temp_audio, kernelVars, nchannels>>

\* Lines 136-143.
EncodeFirst == pc = "encode1" /\ Encode(1, FirstCodec(use_gpu))

\* Lines 144-151.
EncodeRetry == pc = "encode2" /\ Encode(Len(encodes) + 1, RetryCodec)

\* Line 153.
CloseFinal ==
    /\ pc = "close_final"
    /\ final_open' = FALSE
    /\ pc' = "close_video"
    /\ UNCHANGED <<batchVars, window_size, use_gpu, video_open, duration,
                   audio_data, peak, is_silent, i, start_time, keep_segments,
                   output, encodes, error, temp_audio, kernelVars, nchannels>>

\* Lines 155-156: video.close() and the success report.
CloseVideo ==
    /\ pc = "close_video"
    /\ video_open' = FALSE
    /\ report' = Append(report, "success")
    /\ pc' = "return"
    /\ UNCHANGED <<video_files, cur, leaked, window_size, use_gpu, final_open,
                   duration, audio_data, peak, is_silent, i, start_time,
                   keep_segments, output, encodes, error, temp_audio, kernelVars, nchannels>>

\* Lines 158-161: the handler reports the failure and removes the temporary
\* file if it exists.
Handler ==
    /\ pc = "except"
    /\ report' = Append(report, "failure")
    /\ temp_audio' = HandlerTemp(temp_audio)
    /\ pc' = HandlerNext
    /\ UNCHANGED <<video_files, cur, leaked, window_size, callVars, kernelVars, nchannels>>

\* remove_silence returns to the loop of line 168; its clips were closed or
\* stay open.
Return ==
    /\ pc = "return"
    /\ leaked' = leaked + (IF video_open THEN 1 ELSE 0) + (IF final_open THEN 1 ELSE 0)
    /\ cur' = cur + 1
    /\ pc' = "driver"
    /\ UNCHANGED <<video_files, report, window_size, callVars, temp_audio, kernelVars, nchannels>>

Init ==
    /\ video_files \in 0..MaxFiles
    /\ cur = 1
    /\ pc = "driver"
    /\ window_size = 1
    /\ use_gpu = FALSE
    /\ video_open = FALSE
    /\ final_open = FALSE
    /\ duration = 0
    /\ temp_audio \in BOOLEAN
    /\ nchannels = 1
    /\ audio_data = <<>>
    /\ peak = 0
    /\ is_silent = <<>>
    /\ i = 0
    /\ start_time = 0
    /\ keep_segments = <<>>
    /\ output = "none"
    /\ encodes = <<>>
    /\ error = "none"
    /\ report = <<>>
    /\ leaked = 0
    /\ d_is_silent = <<>>
    /\ writes = <<>>
    /\ stray = 0
    /\ todo = {}
    /\ idle = 0

Next ==
    \/ NextFile
    \/ BatchEnd
    \/ ProbeDevice
    \/ LoadVideo
    \/ ExtractAudio
    \/ Normalize
    \/ Classify
    \/ ScanStep
    \/ TailStep
    \/ RemoveTemp
    \/ CreateOutput
    \/ EncodeFirst
    \/ EncodeRetry
    \/ CloseFinal
    \/ CloseVideo
    \/ Handler
    \/ Return

Spec == Init /\ [][Next]_vars

(***************************************************************************)
(* The read and normalization of lines 73-78 as a function of the wave     *)
(* file: mono and stereo files whose samples include the smallest 16-bit   *)
(* value.                                                                  *)
(***************************************************************************)
\* The smallest 16-bit value, a quiet negative sample, zero and a loud one.
WideVals == {Int16Min, -1, 0, 100}

NormInit ==
    /\ video_files = 1
    /\ cur = 1
    /\ pc = "analyze"
    /\ window_size = 1
    /\ use_gpu = FALSE
    /\ video_open = TRUE
    /\ final_open = FALSE
    /\ duration = 1
    /\ temp_audio = TRUE
    /\ nchannels = 1
    /\ audio_data = <<>>
    /\ peak = 0
    /\ is_silent = <<>>
    /\ i = 0
    /\ start_time = 0
    /\ keep_segments = <<>>
    /\ output = "none"
    /\ encodes = <<>>
    /\ error = "none"
    /\ report = <<>>
    /\ leaked = 0
    /\ d_is_silent = <<>>
    /\ writes = <<>>
    /\ stray = 0
    /\ todo = {}
    /\ idle = 0

NormalizeWide ==
    NormalizeFrom(MonoWaves(WideVals, MaxNormLen) \cup StereoWaves(WideVals, MaxNormLen))

NormNext == NormalizeWide

NormSpec == NormInit /\ [][NormNext]_vars

\* The pipeline is one synchronous thread: a step that can be taken is taken.
FairSpec == Spec /\ WF_vars(Next)

\* Under FairSpec the driver's loop ends with every file reported.
BatchTerminates == <>(pc = "exit" /\ Len(report) = video_files)

(***************************************************************************)
(* The segmentation of lines 99-120 as a function of its inputs: the       *)
(* per-sample booleans, the window size and the source duration are drawn  *)
(* freely, and the loop and the tail step are the actions of the pipeline. *)
(* The array is not empty (Normalize raises on an empty one) and the       *)
(* duration is positive.                                                   *)
(***************************************************************************)
ScanInit ==
    /\ video_files = 1
    /\ cur = 1
    /\ pc = "scan"
    /\ window_size \in 1..MaxWindow
    /\ use_gpu = FALSE
    /\ video_open = TRUE
    /\ final_open = FALSE
    /\ duration \in 1..(MaxScanLen + 1)
    /\ temp_audio = TRUE
    /\ nchannels = 1
    /\ audio_data = <<>>
    /\ peak = 0
    /\ is_silent \in SeqsUpTo(BOOLEAN, MaxScanLen) \ {<<>>}
    /\ i = 0
    /\ start_time = 0
    /\ keep_segments = <<>>
    /\ output = "none"
    /\ encodes = <<>>
    /\ error = "none"
    /\ report = <<>>
    /\ leaked = 0
    /\ d_is_silent = <<>>
    /\ writes = <<>>
    /\ stray = 0
    /\ todo = {}
    /\ idle = 0

ScanNext == ScanStep \/ TailStep

ScanSpec == ScanInit /\ [][ScanNext]_vars

(***************************************************************************)
(* The kernel launch of lines 82-91, one action per GPU thread.  Threads   *)
(* whose index is inside the array are kept as a set and run in any order; *)
(* the threads past the end of the array differ only by their index and    *)
(* are run in index order.                                                 *)
(***************************************************************************)
\* blockspergrid (line 83).
BlocksPerGrid(n) == (n + (threadsperblock - 1)) \div threadsperblock

\* The kernel's guard (line 57), on a 0-based thread index.
InRange(idx, n) == idx < n

KernelInit ==
    /\ video_files = 1
    /\ cur = 1
    /\ pc = "classify"
    /\ window_size = 1
    /\ use_gpu = TRUE
    /\ video_open = TRUE
    /\ final_open = FALSE
    /\ duration = 0
    /\ temp_audio = TRUE
    /\ nchannels = 1
    /\ audio_data \in SeqsUpTo(SampleVals, MaxKernelLen) \ {<<>>}
    /\ peak = Peak(audio_data)
    /\ is_silent = <<>>
    /\ i = 0
    /\ start_time = 0
    /\ keep_segments = <<>>
    /\ output = "none"
    /\ encodes = <<>>
    /\ error = "none"
    /\ report = <<>>
    /\ leaked = 0
    /\ d_is_silent = <<>>
    /\ writes = <<>>
    /\ stray = 0
    /\ todo = {}
    /\ idle = 0

kernelRest == <<batchVars, nchannels, window_size, use_gpu, video_open, final_open, duration,
                audio_data, peak, i, start_time, keep_segments, output, encodes,
                error, temp_audio>>

\* Lines 85-88: the device array is allocated uninitialised and the grid of
\* blockspergrid * threadsperblock threads is started.
KernelLaunch ==
    /\ pc = "classify"
    /\ LET n == Len(audio_data)
           grid == BlocksPerGrid(n) * threadsperblock
       IN  /\ d_is_silent' \in [1..n -> BOOLEAN]
           /\ writes' = [k \in 1..n |-> 0]
           /\ todo' = {idx \in 0..(n - 1) : idx < grid}
           /\ idle' = IF grid > n THEN grid - n ELSE 0
    /\ stray' = 0
    /\ pc' = "kernel"
    /\ UNCHANGED <<kernelRest, is_silent>>

\* Lines 56-58 for a thread whose index is inside the array.
KernelThread ==
    /\ pc = "kernel"
    /\ \E idx \in todo :
          /\ todo' = todo \ {idx}
          /\ IF InRange(idx, Len(audio_data))
             THEN /\ d_is_silent' = [d_is_silent EXCEPT
                                       ![idx + 1] = SilentGPU(audio_data[idx + 1], peak)]
                  /\ writes' = [writes EXCEPT ![idx + 1] = @ + 1]
             ELSE UNCHANGED <<d_is_silent, writes>>
    /\ UNCHANGED <<kernelRest, is_silent, stray, idle, pc>>

\* Lines 56-58 for the next thread past the end of the array: the guard keeps
\* it from writing.
KernelIdleThread ==
    /\ pc = "kernel"
    /\ idle > 0
    /\ LET n == Len(audio_data)
           idx == BlocksPerGrid(n) * threadsperblock - idle
       IN  stray' = IF InRange(idx, n) THEN stray + 1 ELSE stray
    /\ idle' = idle - 1
    /\ UNCHANGED <<kernelRest, is_silent, d_is_silent, writes, todo, pc>>

\* Lines 89-91: cuda.synchronize() and copy_to_host().
KernelSync ==
    /\ pc = "kernel"
    /\ todo = {}
    /\ idle = 0
    /\ is_silent' = d_is_silent
    /\ pc' = "synced"
    /\ UNCHANGED <<kernelRest, kernelVars>>

KernelNext == KernelLaunch \/ KernelThread \/ KernelIdleThread \/ KernelSync

KernelSpec == KernelInit /\ [][KernelNext]_vars

(***************************************************************************)
(* Vocabulary of the properties.                                           *)
(***************************************************************************)
\* remove_silence has returned and the driver has not yet moved on.
Returned == pc = "return"

\* Control is in the driver, after at least one call has returned.
BetweenFiles == pc \in {"driver", "exit"} /\ cur > 1

\* The classification of this call was computed and the loop and the tail
\* step are over.
Segmented ==
    /\ is_silent /= <<>>
    /\ pc \in {"tail", "create", "encode1", "encode2", "close_final",
               "close_video", "except", "return"}

AllWindowsSilent ==
    \A w \in 0..(NumWindows(is_silent, window_size) - 1) :
        ~WindowVoiced(is_silent, window_size, w)

AllWindowsVoiced ==
    \A w \in 0..(NumWindows(is_silent, window_size) - 1) :
        WindowVoiced(is_silent, window_size, w)

\* The end of the last full window, in sample periods.
AnalysedEnd == NumWindows(is_silent, window_size) * window_size

LastReport == report[Len(report)]

\* C1: a fully silent extracted audio (every sample 0, so the divisor of the
\* normalization is 0) ends the file in a reported failure at the
\* normalization: the run never reaches classification, segmentation, cutting
\* or encoding with it, and nothing is written at the output path.
C1_SilentInputIsRejected ==
    (audio_data /= <<>> /\ \A k \in 1..Len(audio_data) : audio_data[k] = 0)
        => /\ pc \in {"analyze", "except", "return", "driver", "exit"}
           /\ is_silent = <<>>
           /\ output = "none"
           /\ (pc \in {"return", "driver", "exit"} => LastReport = "failure")

\* C2 as stated: whenever every full window (there is at least one) is
\* classified silent, for any source duration, the keep-interval list is
\* empty, output creation is skipped, nothing is written, and the run ends as
\* a success.
C2_AllSilentGivesNoOutput ==
    (Segmented /\ NumWindows(is_silent, window_size) >= 1 /\ AllWindowsSilent)
        => /\ keep_segments = <<>>
           /\ encodes = <<>>
           /\ output = "none"
           /\ ~final_open
           /\ pc \notin {"encode1", "encode2", "close_final", "except"}
           /\ (Returned => LastReport = "success")

\* C2 amended: whenever every full window is classified silent and the source
\* duration does not reach past the end of the last full window, the
\* keep-interval list is empty, output creation is skipped, nothing is
\* written, and the run ends as a success.
C2_AllSilentNoTailGivesNoOutput ==
    (Segmented /\ AllWindowsSilent /\ duration <= AnalysedEnd)
        => /\ keep_segments = <<>>
           /\ encodes = <<>>
           /\ output = "none"
           /\ ~final_open
           /\ pc \notin {"encode1", "encode2", "close_final", "except"}
           /\ (Returned => LastReport = "success")

C2_Witness ==
    /\ Returned
    /\ Segmented
    /\ NumWindows(is_silent, window_size) >= 1
    /\ AllWindowsSilent
    /\ duration <= AnalysedEnd
    /\ keep_segments = <<>>
    /\ output = "none"
    /\ LastReport = "success"

(***************************************************************************)
(* The maximal runs of voiced windows, stated without the loop.  Slot w is *)
(* window w for w < num_windows; slot num_windows is the unanalysed time   *)
(* between the end of the last full window and the source duration, which  *)
(* counts as voiced when there is any.                                     *)
(***************************************************************************)
SlotVoiced(w) ==
    IF w < NumWindows(is_silent, window_size)
    THEN WindowVoiced(is_silent, window_size, w)
    ELSE duration > AnalysedEnd

Slots == 0..NumWindows(is_silent, window_size)

RunStarts == {a \in Slots : SlotVoiced(a) /\ (a = 0 \/ ~SlotVoiced(a - 1))}

\* The last slot of the run that starts at slot a.
RunLast(a) ==
    CHOOSE b \in Slots :
        /\ b >= a
        /\ \A w \in a..b : SlotVoiced(w)
        /\ (b = NumWindows(is_silent, window_size) \/ ~SlotVoiced(b + 1))

\* The run that starts at slot a, as (start, end).
RunInterval(a) ==
    <<a * window_size,
      IF RunLast(a) = NumWindows(is_silent, window_size)
      THEN duration ELSE (RunLast(a) + 1) * window_size>>

KeepsTheRuns ==
    /\ Len(keep_segments) = Cardinality(RunStarts)
    /\ \A a \in RunStarts :
          keep_segments[Cardinality({b \in RunStarts : b < a}) + 1] = RunInterval(a)

\* The scenario of the specification: ten windows of one second, windows 3
\* and 4 silent, a source of ten seconds.
TenSecondInput ==
    /\ window_size = 1
    /\ duration = 10
    /\ is_silent = [k \in 1..10 |-> k \in {4, 5}]

\* C3 as stated: after the tail step, for any classification and any source
\* duration, the keep-interval list is, in order, the maximal runs of voiced
\* windows with the leftover time after the last full window counted as
\* voiced; all windows voiced gives exactly (0, duration); the ten-second
\* scenario gives exactly [(0,3),(5,10)].
C3_KeepSegmentsAreVoicedRuns ==
    pc = "tail"
        => /\ KeepsTheRuns
           /\ (AllWindowsVoiced => keep_segments = <<<<0, duration>>>>)
           /\ (TenSecondInput => keep_segments = <<<<0, 3>>, <<5, 10>>>>)

\* C3 amended: the same, for any source duration that is not shorter than
\* the analysed audio (the end of the last full window).
C3_KeepSegmentsAreVoicedRunsFromAnalysedEnd ==
    (pc = "tail" /\ duration >= AnalysedEnd)
        => /\ KeepsTheRuns
           /\ (AllWindowsVoiced => keep_segments = <<<<0, duration>>>>)
           /\ (TenSecondInput => keep_segments = <<<<0, 3>>, <<5, 10>>>>)

C3_Witness ==
    /\ pc = "tail"
    /\ TenSecondInput
    /\ keep_segments = <<<<0, 3>>, <<5, 10>>>>

Ordered(segs) ==
    /\ \A k \in 1..Len(segs) : segs[k][1] < segs[k][2]
    /\ \A k \in 1..(Len(segs) - 1) :
          /\ segs[k][1] < segs[k + 1][1]
          /\ segs[k][2] <= segs[k + 1][1]

\* C4: at every point of the window loop and after the tail step, for any
\* classification and any source duration, every keep-interval has
\* start < end, the starts are strictly increasing and each end is at most
\* the next start.
C4_KeepSegmentsOrdered == Ordered(keep_segments)

\* Three intervals, the last one added by the tail step of a source shorter
\* than the analysed audio.
C4_Witness ==
    /\ pc = "tail"
    /\ Len(keep_segments) = 3
    /\ duration < AnalysedEnd
    /\ keep_segments[3][2] = duration

\* Every index of the array is written by exactly one kernel thread, no thread
\* writes outside the array, and the kernel, thread by thread, computes what
\* Classify takes in one step.
KernelWritesEachIndexOnce ==
    pc = "synced"
        => /\ \A k \in 1..Len(audio_data) : writes[k] = 1
           /\ stray = 0
           /\ is_silent = GpuClassify(audio_data, peak)

\* C5: for every sample array, after the kernel launch and its synchronize
\* the accelerated classification is exactly the boolean array of the
\* sequential classification, every index was written exactly once, no index
\* outside the array was written, and the keep-interval lists of the two paths
\* are identical for every window size and duration.
C5_ParallelEqualsSequential ==
    pc = "synced"
        => /\ \A k \in 1..Len(audio_data) : writes[k] = 1
           /\ stray = 0
           /\ is_silent = CpuClassify(audio_data, peak)
           /\ \A ws \in 1..MaxWindow, dur \in 1..MaxDuration :
                 KeepSegments(is_silent, ws, dur)
                     = KeepSegments(CpuClassify(audio_data, peak), ws, dur)

\* C6: the files are processed one after another in list order, each file has
\* its reported success or failure before the next one starts, a failure
\* never stops the batch, and when the driver's loop ends every file of the
\* list has been attempted and reported.
C6_BatchIsSequentialAndComplete ==
    /\ cur \in 1..(video_files + 1)
    /\ \A k \in 1..Len(report) : report[k] \in {"success", "failure"}
    /\ Len(report) = IF pc = "return" THEN cur ELSE cur - 1
    /\ (pc = "exit" => Len(report) = video_files)
    /\ (pc /= "exit" => ENABLED Next)

C6_Witness ==
    /\ pc = "exit"
    /\ video_files = 2
    /\ report = <<"failure", "success">>

\* C7: whenever remove_silence has returned, on any path, temp_audio.wav does
\* not exist; so it does not exist when the driver starts the next file.
C7_NoTempFileAfterReturn ==
    (Returned \/ BetweenFiles) => ~temp_audio

\* A failure raised while the temporary file exists.
C7_Witness ==
    /\ Returned
    /\ error = "analyze"
    /\ LastReport = "failure"
    /\ ~temp_audio

\* C8: a failed first write_videofile is followed by exactly one further
\* attempt, with libx264; a successful first attempt is followed by none;
\* there is never a third attempt; and when the second attempt fails too the
\* file ends in a reported encoding failure, not in a reported success.
C8_EncoderRetriesOnce ==
    /\ Len(encodes) <= 2
    /\ (Len(encodes) = 2 => ~encodes[1].ok /\ encodes[2].codec = "libx264")
    /\ (Len(encodes) >= 1 /\ ~encodes[1].ok /\ pc /= "encode2" => Len(encodes) = 2)
    /\ (Len(encodes) = 2 /\ ~encodes[2].ok =>
            /\ pc \in {"except", "return", "driver", "exit"}
            /\ error = "encode"
            /\ (pc /= "except" => LastReport = "failure"))

C8_Witness ==
    /\ Returned
    /\ Len(encodes) = 2
    /\ ~encodes[1].ok
    /\ ~encodes[2].ok
    /\ LastReport = "failure"

\* C9: whenever remove_silence ends with a reported failure, nothing exists at
\* the file's output path.
C9_NoOutputAfterFailure ==
    (Returned /\ LastReport = "failure") => output = "none"

\* C10: when remove_silence returns, on every exit path, the source clip and
\* the concatenated clip are closed, so after each file of a batch no decoder
\* handle is open.
C10_HandlesClosedOnReturn ==
    /\ (Returned => ~video_open /\ ~final_open)
    /\ (BetweenFiles => leaked = 0)

\* The file is not degenerate: some sample is not 0.
NonDegenerate == \E k \in 1..Len(audio_data) : audio_data[k] /= 0

\* The divisor is positive and at least the magnitude of every sample, so
\* every quotient sample / divisor lies in [-1, 1] and has the sample's sign.
DivisorBoundsEverySample ==
    /\ peak > 0
    /\ \A k \in 1..Len(audio_data) : Abs(audio_data[k]) <= peak

\* C11: for every non-degenerate mono or stereo file of signed 16-bit samples,
\* -32768 included, after the normalization the divisor is positive and at
\* least the magnitude of every sample, so every normalized amplitude lies in
\* [-1.0, 1.0] and keeps the sign of its sample.
C11_NormalizedWithinUnitRange ==
    (pc = "classify" /\ NonDegenerate) => DivisorBoundsEverySample

\* The same holds of every stereo file, and of every mono file without the
\* sample -32768.
NormalizedWithinUnitRangeUnlessMonoMin ==
    (/\ pc = "classify"
     /\ NonDegenerate
     /\ (nchannels = 2 \/ \A k \in 1..Len(audio_data) : audio_data[k] /= Int16Min))
        => DivisorBoundsEverySample

====
